---- MODULE Spec2Model ----
(***************************************************************************)
(* Model of handsfree-gui-control.                                         *)
(*                                                                         *)
(* Operation phase: MainInterface.check_gaze (src/main_interface.py), the  *)
(* 100 ms timer callback that maps the latest gaze offsets to a screen     *)
(* point, smooths the pointer towards it and runs the dwell-click logic on *)
(* the buttons of the current screen.                                      *)
(*                                                                         *)
(* Calibration phase: CalibrationWindow (src/calibration_ui.py), whose key *)
(* handler and single-shot timer callbacks walk through the nine anchors,  *)
(* save calibration_data.json and run the evaluation.                      *)
(*                                                                         *)
(* Numbers.  Gaze offsets are floats in the program; here they are         *)
(* fixed-point integers counting hundredths (0.01, the program's own       *)
(* minimum range), and every product/quotient is computed exactly and      *)
(* truncated towards zero where the program applies int().  Pixel          *)
(* coordinates and milliseconds are integers as in the program.            *)
(***************************************************************************)
EXTENDS Integers, Sequences, FiniteSets, TLC

VARIABLES
  calibration_points, \* module global loaded from calibration_data.json
  screen_w, screen_h, \* pyautogui.size()
  latest,             \* gaze_tracker.get_latest_offsets(): <<dx, dy>>
  fresh,              \* the sensor stored a sample since the last tick
  prev_cursor_pos,    \* self.prev_cursor_pos = pointer position <<x, y>>
  buttons,            \* self.buttons: ordered list of button ids
  hovered_button,     \* self.hovered_button (None or a button id)
  hover_timer,        \* self.hover_timer: [valid, elapsed]
  screen_pt,          \* <<screen_x, screen_y>> of the latest tick
  hit_point,          \* the point the latest tick passed to contains()
  hit,                \* first button containing hit_point on the latest tick
  activated,          \* button whose click() ran on the latest tick
  ticked,             \* check_gaze has run at least once
  before_pos,         \* prev_cursor_pos as the latest tick read it
  before_hovered,     \* hovered_button as the latest tick read it
  same_target,        \* the latest two ticks projected the same screen_pt
  streak_ms,          \* ms since the first tick of the unbroken run on hit
  fired_earlier,      \* an earlier tick of that unbroken run ran click()
  error,              \* exception the latest check_gaze raised (None if none)
  current_step,       \* CalibrationWindow.current_step
  pending_show,       \* single shots of show_next_marker not yet fired
  visible,            \* anchors whose marker label is visible
  tracker_points,     \* gaze_tracker.calibration_points
  calibrate_calls,    \* anchors calibrate_point was called for, in order
  marker_shown,       \* the anchor's marker was visible at the latest call
  completions,        \* runs of the complete branch of show_next_marker
  saved_file,         \* contents of calibration_data.json
  pending_eval,       \* single shots of run_evaluation not yet fired
  pending_close,      \* single shots of close not yet fired
  closed,             \* the window has been closed
  summary,            \* contents of evaluation_summary.json
  last_key            \* event.text() if the latest event was a key press

\* MainInterface and its module globals
op_vars == <<calibration_points, latest, fresh, prev_cursor_pos, buttons,
             hovered_button, hover_timer, screen_pt, hit_point, hit,
             activated, ticked, before_pos, before_hovered, same_target,
             streak_ms, fired_earlier, error>>

\* CalibrationWindow and the files it writes
ui_vars == <<current_step, pending_show, visible, tracker_points,
             calibrate_calls, marker_shown, completions, saved_file, pending_eval,
             pending_close, closed, summary, last_key>>

vars == <<screen_w, screen_h, op_vars, ui_vars>>

None == "None"

----------------------------------------------------------------------------
(* Bounds of the model                                                     *)

MaxOff == 2        \* live offsets range over -MaxOff..MaxOff hundredths
MaxLate == 2       \* a tick fires 1..MaxLate timer periods after the last
ElapsedCap == 2200 \* elapsed times saturate here (above DWELL_MS)
WideOff == 30      \* offsets of the mapping-only specification
MaxSpread == 3     \* per-axis spread of generated calibration grids

(* Program constants                                                       *)

TICK_MS == 100        \* self.timer.start(100)
DWELL_MS == 2000      \* self.hover_timer.hasExpired(2000)
SCALE_CAP == 40000    \* min(..., 40000)
RANGE_FLOOR == 1      \* max(range, 0.01), in hundredths

----------------------------------------------------------------------------
(* Arithmetic helpers                                                      *)

Min(a, b) == IF a <= b THEN a ELSE b
Max(a, b) == IF a >= b THEN a ELSE b
Abs(a) == IF a < 0 THEN -a ELSE a

\* int(n / d) for d > 0: truncation towards zero
TruncDiv(n, d) == IF n >= 0 THEN n \div d ELSE -((-n) \div d)

SetMax(S) == CHOOSE m \in S : \A v \in S : v <= m
SetMin(S) == CHOOSE m \in S : \A v \in S : m <= v

----------------------------------------------------------------------------
(* Calibration data: name -> <<count, reserved, dx, dy, width>>            *)
(* (the persisted list [count, reserved, dx, dy, width]; Python index k is *)
(* tuple index k+1)                                                        *)

\* grid column and row of each anchor of the positions table
AnchorCell ==
  [ n \in {"Top-Left", "Top", "Top-Right", "Far-Left", "Center", "Far-Right",
           "Bottom-Left", "Bottom", "Bottom-Right"} |->
      CASE n = "Top-Left"     -> <<0, 0>>
        [] n = "Top"          -> <<1, 0>>
        [] n = "Top-Right"    -> <<2, 0>>
        [] n = "Far-Left"     -> <<0, 1>>
        [] n = "Center"       -> <<1, 1>>
        [] n = "Far-Right"    -> <<2, 1>>
        [] n = "Bottom-Left"  -> <<0, 2>>
        [] n = "Bottom"       -> <<1, 2>>
        [] n = "Bottom-Right" -> <<2, 2>> ]

AnchorNames == DOMAIN AnchorCell

\* A calibration set whose means lie on a grid around (cx, cy) with spreads
\* sx, sy (looking left raises dx), the Top-Left mean skewed by skew; the
\* record named zero (if any) is an empty record: count 0, means 0.
MkCalib(cx, cy, sx, sy, skew, zero) ==
  [ n \in AnchorNames |->
      IF n = zero THEN <<0, 0, 0, 0, 0>>
      ELSE <<5, 0,
             cx - sx * (AnchorCell[n][1] - 1)
                + (IF n = "Top-Left" THEN skew ELSE 0),
             cy + sy * (AnchorCell[n][2] - 1),
             60>> ]

----------------------------------------------------------------------------
(* The mapping of check_gaze                                               *)

\* Clamp with the lower bound forgotten
Clamp_NoLower(v, lo, hi) == Min(hi, v)

\* max(lo, min(hi, v))
Clamp(v, lo, hi) == Max(lo, Min(hi, v))

\* CENTER_X, CENTER_Y = screen_w // 2, screen_h // 2
Center(w, h) == <<w \div 2, h \div 2>>

\* all_dx / all_dy: column k of every record
Column(calib, k) == { calib[n][k] : n \in DOMAIN calib }

\* max(max(all) - min(all), 0.01)
Range(S) == Max(SetMax(S) - SetMin(S), RANGE_FLOOR)

\* Origin read from the wrong columns (val[3] for dx, val[2] for dy)
Origin_WrongColumn(calib) == <<calib["Center"][4], calib["Center"][3]>>

\* what a failed dictionary lookup yields in place of a record
KeyError == <<>>

\* calibration_points.get('Center', zeros) in place of the subscript
CenterRecord_Default(calib) ==
  IF "Center" \in DOMAIN calib THEN calib["Center"] ELSE <<0, 0, 0, 0, 0>>

\* calibration_points['Center']
CenterRecord(calib) ==
  IF "Center" \in DOMAIN calib THEN calib["Center"] ELSE KeyError

\* center_dx, center_dy
Origin(calib) == <<CenterRecord(calib)[3], CenterRecord(calib)[4]>>

\* the exception lines 77-89 raise: max() of an empty list, or the lookup
Raised(calib) ==
  IF DOMAIN calib = {} THEN "ValueError"
  ELSE IF CenterRecord(calib) = KeyError THEN "KeyError"
  ELSE None

\* int(dir * rel * SCALE) with SCALE = min(extent / (range * 0.8), 40000):
\* rel and range are hundredths, so extent / (range * 0.8) = 125*extent/range
PixelOffset(dir, rel, extent, range) ==
  IF 125 * extent > SCALE_CAP * range
    THEN TruncDiv(dir * rel * SCALE_CAP, 100)
    ELSE TruncDiv(dir * rel * 125 * extent, 100 * range)

DIR_X == -1   \* INVERT_X = True
DIR_Y == 1    \* INVERT_Y = False

\* screen_x, screen_y before clamping
RawProject(calib, w, h, s) ==
  <<Center(w, h)[1]
      + PixelOffset(DIR_X, s[1] - Origin(calib)[1], w, Range(Column(calib, 3))),
    Center(w, h)[2]
      + PixelOffset(DIR_Y, s[2] - Origin(calib)[2], h, Range(Column(calib, 4)))>>

\* max(0, min(screen_w - 1, screen_x)), max(0, min(screen_h - 1, screen_y))
ClampToScreen(raw, w, h) ==
  <<Clamp(raw[1], 0, w - 1), Clamp(raw[2], 0, h - 1)>>

\* screen_x, screen_y after clamping to the screen
Project(calib, w, h, s) == ClampToScreen(RawProject(calib, w, h, s), w, h)

\* Smooth with a gain of 1.2 in place of 0.2
Smooth_Overshoot(prev, target) == TruncDiv(5 * prev + 6 * (target - prev), 5)

\* Smooth with the sign of the step flipped: prev - 0.2 * (target - prev)
Smooth_Away(prev, target) == TruncDiv(5 * prev - (target - prev), 5)

\* int(prev + 0.2 * (target - prev)) on one axis
Smooth(prev, target) == TruncDiv(5 * prev + (target - prev), 5)

SmoothPos(prev, target) ==
  <<Smooth(prev[1], target[1]), Smooth(prev[2], target[2])>>

\* QPoint(screen_x, screen_y): the point handed to btn_rect.contains
HitTestPoint(projected, smoothed) == projected

----------------------------------------------------------------------------
(* Buttons of the screens (ids are unique across screens)                  *)

\* global rectangle of each button: <<left, top, width, height>>
ButtonRect ==
  [ b \in {"A", "B", "C"} |->
      CASE b = "A" -> <<2, 0, 3, 2>>
        [] b = "B" -> <<4, 0, 2, 2>>
        [] b = "C" -> <<0, 0, 3, 2>> ]

\* buttons attribute of each screen widget; the last screen has none
ScreenButtons == << <<"A", "B">>, <<"C">>, <<>> >>

\* QRect.contains(QPoint): edges included
Contains(r, p) ==
  /\ r[1] <= p[1] /\ p[1] <= r[1] + r[3] - 1
  /\ r[2] <= p[2] /\ p[2] <= r[2] + r[4] - 1

\* FirstHit without the break: the last containing button wins
FirstHit_LastWins(btns, p) ==
  IF \E i \in 1..Len(btns) : Contains(ButtonRect[btns[i]], p)
    THEN btns[CHOOSE i \in 1..Len(btns) :
                /\ Contains(ButtonRect[btns[i]], p)
                /\ \A j \in (i + 1)..Len(btns) : ~Contains(ButtonRect[btns[j]], p)]
    ELSE None

\* for btn in self.buttons: if contains: ... break / else: no button
FirstHit(btns, p) ==
  IF \E i \in 1..Len(btns) : Contains(ButtonRect[btns[i]], p)
    THEN btns[CHOOSE i \in 1..Len(btns) :
                /\ Contains(ButtonRect[btns[i]], p)
                /\ \A j \in 1..(i - 1) : ~Contains(ButtonRect[btns[j]], p)]
    ELSE None

----------------------------------------------------------------------------
(* QElapsedTimer                                                           *)

Invalid == [valid |-> FALSE, elapsed |-> 0]     \* QElapsedTimer(), invalidate()
Restarted == [valid |-> TRUE, elapsed |-> 0]    \* restart()

\* dt ms of wall-clock time pass
Advance(t, dt) ==
  IF t.valid THEN [t EXCEPT !.elapsed = Min(t.elapsed + dt, ElapsedCap)] ELSE t

\* HasExpired comparing with >= in place of >
HasExpired_AtLeast(t, ms, undef) == IF t.valid THEN t.elapsed >= ms ELSE undef

\* hasExpired(ms): elapsed() > ms.  elapsed() of an invalid timer is
\* undefined; undef is the value the build happens to produce.
HasExpired(t, ms, undef) == IF t.valid THEN t.elapsed > ms ELSE undef

----------------------------------------------------------------------------
(* The dwell logic of check_gaze (the for/else over self.buttons)          *)

\* Dwell without the else branch of the for loop: a tick that hits no button
\* leaves hovered_button and hover_timer as they were
Dwell_KeepOnMiss(hovered, timer, btn, undef) ==
  IF btn = None
    THEN [hovered |-> hovered, timer |-> timer, click |-> None]
  ELSE IF hovered # btn
    THEN [hovered |-> btn, timer |-> Restarted, click |-> None]
  ELSE IF HasExpired(timer, DWELL_MS, undef)
    THEN [hovered |-> hovered, timer |-> Invalid, click |-> btn]
  ELSE [hovered |-> hovered, timer |-> timer, click |-> None]

\* Dwell without hover_timer.restart() when the hovered button changes
Dwell_NoRestart(hovered, timer, btn, undef) ==
  IF btn = None
    THEN [hovered |-> None, timer |-> Invalid, click |-> None]
  ELSE IF hovered # btn
    THEN [hovered |-> btn,
          timer |-> [valid |-> TRUE, elapsed |-> timer.elapsed],
          click |-> None]
  ELSE IF HasExpired(timer, DWELL_MS, undef)
    THEN [hovered |-> hovered, timer |-> Invalid, click |-> btn]
  ELSE [hovered |-> hovered, timer |-> timer, click |-> None]

\* btn is FirstHit; the result is the new hovered_button and hover_timer
\* and the button clicked (None if none)
Dwell(hovered, timer, btn, undef) ==
  IF btn = None
    THEN [hovered |-> None, timer |-> Invalid, click |-> None]
  ELSE IF hovered # btn
    THEN [hovered |-> btn, timer |-> Restarted, click |-> None]
  ELSE IF HasExpired(timer, DWELL_MS, undef)
    THEN [hovered |-> hovered, timer |-> Invalid, click |-> btn]
  ELSE [hovered |-> hovered, timer |-> timer, click |-> None]

----------------------------------------------------------------------------
(* Inputs                                                                  *)

Offsets == (-MaxOff)..MaxOff
TickDelays == { k * TICK_MS : k \in 1..MaxLate }

\* dwell runs: a 6 x 2 screen, gaze moving along the horizontal axis
DwellScreen == <<6, 2>>
DwellSamples == Offsets \X {0}
DwellCalib == MkCalib(0, 0, 2, 2, 0, None)

\* smoothing runs: a 12 x 4 screen showing the button-less final screen
SmoothScreen == <<12, 4>>
SmoothSamples == Offsets \X {-MaxOff, 0, MaxOff}
SmoothCalibs == { MkCalib(0, 0, 2, 2, 0, None), MkCalib(1, 0, 2, 2, 1, None),
                  MkCalib(0, 0, 2, 2, 0, "Bottom") }

\* mapping runs: small, odd and full-size screens, near and far offsets
WideScreens == { <<1, 1>>, <<7, 5>>, <<1920, 1080>> }
WideValues == {-WideOff, -1, 0, 2, WideOff}
WideSamples == WideValues \X WideValues
WideCalibs ==
  { MkCalib(cx, 0, sx, sy, skew, zero) :
      cx \in {-1, 2}, sx \in 0..MaxSpread, sy \in 0..MaxSpread,
      skew \in {0, 1}, zero \in {None, "Top"} }

----------------------------------------------------------------------------
(* Calibration phase: CalibrationWindow                                    *)

\* list(positions.items()): name and trigger key (the fractions are
\* AnchorCell / 2)
keys_map ==
  << <<"Top-Left", "q">>, <<"Top", "w">>, <<"Top-Right", "e">>,
     <<"Far-Left", "a">>, <<"Center", "c">>, <<"Far-Right", "d">>,
     <<"Bottom-Left", "z">>, <<"Bottom", "s">>, <<"Bottom-Right", "x">> >>

\* key presses the operator can make: the trigger keys and one other key
Keys == { keys_map[i][2] : i \in 1..Len(keys_map) } \cup {"k"}

\* no calibration_data.json / no evaluation_summary.json written yet
NoFile == <<>>

\* any key accepted as the trigger of the current step
Expected_AnyKey(step, key) == TRUE

\* key_char == self.keys_map[self.current_step][1][2]
Expected(step, key) == key = keys_map[step + 1][2]

\* the record calibrate_point leaves for anchor name
Measured(name) == MkCalib(0, 0, 2, 2, 0, None)[name]

\* calibration_points[name] = rec
Put(points, name, rec) ==
  [ n \in (DOMAIN points) \cup {name} |-> IF n = name THEN rec ELSE points[n] ]

\* the state CalibrationWindow.__init__ leaves, calibration_data.json
\* holding file
Window(file) ==
  /\ current_step = 0
  /\ pending_show = 1
  /\ visible = {}
  /\ tracker_points = <<>>
  /\ calibrate_calls = <<>>
  /\ marker_shown = TRUE
  /\ completions = 0
  /\ saved_file = file
  /\ pending_eval = 0 /\ pending_close = 0
  /\ closed = FALSE
  /\ summary = NoFile
  /\ last_key = None

\* CalibrationWindow.keyPressEvent with event.text() = key
KeyPress(key) ==
  /\ ~closed
  /\ last_key' = key
  /\ IF current_step < Len(keys_map) /\ Expected(current_step, key)
       THEN \E name \in {keys_map[current_step + 1][1]} :
            /\ tracker_points' = Put(tracker_points, name, Measured(name))
            /\ calibrate_calls' = Append(calibrate_calls, name)
            /\ marker_shown' = (name \in visible)
            /\ visible' = visible \ {name}
            /\ current_step' = current_step + 1
            /\ pending_show' = pending_show + 1
       ELSE UNCHANGED <<tracker_points, calibrate_calls, marker_shown,
                        visible, current_step, pending_show>>
  /\ UNCHANGED <<completions, saved_file, pending_eval, pending_close,
                 closed, summary>>
  /\ UNCHANGED <<screen_w, screen_h, op_vars>>

\* CalibrationWindow.show_next_marker, fired by one of its single shots
ShowNextMarker ==
  /\ ~closed
  /\ pending_show > 0
  /\ pending_show' = pending_show - 1
  /\ last_key' = None
  /\ IF current_step >= Len(keys_map)
       THEN /\ completions' = completions + 1
            /\ saved_file' = tracker_points
            /\ pending_eval' = pending_eval + 1
            /\ pending_close' = pending_close + 1
            /\ UNCHANGED visible
       ELSE /\ visible' = visible \cup {keys_map[current_step + 1][1]}
            /\ UNCHANGED <<completions, saved_file, pending_eval,
                           pending_close>>
  /\ UNCHANGED <<current_step, tracker_points, calibrate_calls,
                 marker_shown, closed, summary>>
  /\ UNCHANGED <<screen_w, screen_h, op_vars>>

----------------------------------------------------------------------------
(* The evaluation: pixel coordinates in hundredths of a pixel              *)

\* n / d rounded to the nearest integer (n >= 0, d > 0)
Round(n, d) == (2 * n + d) \div (2 * d)

RECURSIVE SqrtIn(_, _, _)
\* the largest r in lo..hi with r * r <= n
SqrtIn(n, lo, hi) ==
  IF lo = hi THEN lo
  ELSE IF ((lo + hi + 1) \div 2) * ((lo + hi + 1) \div 2) <= n
         THEN SqrtIn(n, (lo + hi + 1) \div 2, hi)
         ELSE SqrtIn(n, lo, ((lo + hi + 1) \div 2) - 1)

\* floor of the square root (32-bit range)
Isqrt(n) == SqrtIn(n, 0, Min(n, 46340))

RECURSIVE SumOver(_, _)
\* sum of f over the set S
SumOver(f, S) ==
  IF S = {} THEN 0
  ELSE LET n == CHOOSE m \in S : TRUE IN f[n] + SumOver(f, S \ {n})

\* thresholds = [20, 40, 60, 80, 100], in pixels
THRESHOLDS == <<20, 40, 60, 80, 100>>

\* the records run_evaluation keeps: five values, name in positions
EvalNames(file) ==
  { n \in DOMAIN file : Len(file[n]) = 5 /\ n \in AnchorNames }

\* (gx, gy) = (x_frac * screen_w, y_frac * screen_h)
GroundTruth(name, w, h) ==
  <<50 * AnchorCell[name][1] * w, 50 * AnchorCell[name][2] * h>>

\* the predicted point without the anchor's position
Predicted_NoAnchor(g, rec) == <<rec[3] * rec[5], rec[4] * rec[5]>>

\* (px, py) = (gx + dx * w, gy + dy * w)
Predicted(g, rec) == <<g[1] + rec[3] * rec[5], g[2] + rec[4] * rec[5]>>

\* squared length of pred - gt
DistSq(p, g) ==
  (p[1] - g[1]) * (p[1] - g[1]) + (p[2] - g[2]) * (p[2] - g[2])

\* squared distance error of each kept record
ErrorSq(file, w, h) ==
  [ n \in EvalNames(file) |->
      DistSq(Predicted(GroundTruth(n, w, h), file[n]), GroundTruth(n, w, h)) ]

\* the comparison of Below turned around
Below_Beyond(dsq, t) == dsq > (100 * t) * (100 * t)

\* euclidean < t
Below(dsq, t) == dsq < (100 * t) * (100 * t)

\* round(100 * (euclidean < t).sum() / len(euclidean), 2), in hundredths
\* of a percent
AccuracyPct(esq, t) ==
  Round(10000 * Cardinality({ n \in DOMAIN esq : Below(esq[n], t) }),
        Cardinality(DOMAIN esq))

\* round(np.mean(euclidean), 2), in hundredths of a pixel (each distance
\* rounded down to a hundredth)
MeanDistance(esq) ==
  Round(SumOver([ n \in DOMAIN esq |-> Isqrt(esq[n]) ], DOMAIN esq),
        Cardinality(DOMAIN esq))

\* the summary run_evaluation writes (the angular error is left out)
Evaluate(file, w, h) ==
  [ mean_euclidean_distance_px |-> MeanDistance(ErrorSq(file, w, h)),
    accuracy_thresholds_px |-> THRESHOLDS,
    accuracy_percentages |->
      [ i \in 1..Len(THRESHOLDS) |->
          AccuracyPct(ErrorSq(file, w, h), THRESHOLDS[i]) ] ]

\* CalibrationWindow.run_evaluation, fired by one of its single shots
\* (due after every show_next_marker scheduled before it)
RunEvaluation ==
  /\ ~closed
  /\ pending_eval > 0
  /\ pending_show = 0
  /\ pending_eval' = pending_eval - 1
  /\ last_key' = None
  /\ summary' = IF EvalNames(saved_file) = {}
                  THEN summary   \* "No valid predictions": return
                  ELSE Evaluate(saved_file, screen_w, screen_h)
  /\ UNCHANGED <<current_step, pending_show, visible, tracker_points,
                 calibrate_calls, marker_shown, completions, saved_file,
                 pending_close, closed>>
  /\ UNCHANGED <<screen_w, screen_h, op_vars>>

\* QWidget.close, fired by one of its single shots (due 3000 ms after the
\* run_evaluation scheduled with it); the application quits
CloseWindow ==
  /\ ~closed
  /\ pending_close > 0
  /\ pending_eval = 0
  /\ pending_show = 0
  /\ closed' = TRUE
  /\ pending_close' = pending_close - 1
  /\ last_key' = None
  /\ UNCHANGED <<current_step, pending_show, visible, tracker_points,
                 calibrate_calls, marker_shown, completions, saved_file,
                 pending_eval, summary>>
  /\ UNCHANGED <<screen_w, screen_h, op_vars>>

----------------------------------------------------------------------------
(* Operation phase                                                         *)

\* the state MainInterface.__init__ leaves, the pointer being at start
Start(calibs, screen, starts, btns) ==
  /\ calibration_points \in calibs
  /\ screen_w = screen[1] /\ screen_h = screen[2]
  /\ latest = <<0, 0>> /\ fresh = FALSE
  /\ prev_cursor_pos \in starts
  /\ buttons = btns
  /\ hovered_button = None
  /\ hover_timer = Invalid
  /\ screen_pt = <<0, 0>> /\ hit_point = <<0, 0>>
  /\ hit = None /\ activated = None /\ ticked = FALSE
  /\ before_pos = prev_cursor_pos /\ before_hovered = None
  /\ same_target = FALSE
  /\ streak_ms = 0 /\ fired_earlier = FALSE
  /\ error = None

\* the tracker thread stores a new pair of smoothed offsets
SensorUpdate(S) ==
  /\ \E s \in S : latest' = s
  /\ fresh' = TRUE
  /\ UNCHANGED <<calibration_points, screen_w, screen_h, prev_cursor_pos,
                 buttons, hovered_button, hover_timer, screen_pt, hit_point,
                 hit, activated, ticked, before_pos, before_hovered,
                 same_target, streak_ms, fired_earlier, error, ui_vars>>

\* MainInterface.switch_screen
SwitchScreen ==
  /\ \E k \in 1..Len(ScreenButtons) :
       /\ buttons # ScreenButtons[k]
       /\ buttons' = ScreenButtons[k]
  /\ UNCHANGED <<calibration_points, screen_w, screen_h, latest, fresh,
                 prev_cursor_pos, hovered_button, hover_timer, screen_pt,
                 hit_point, hit, activated, ticked, before_pos,
                 before_hovered, same_target, streak_ms, fired_earlier,
                 error, ui_vars>>

\* MainInterface.check_gaze, dt ms after the previous tick (each local of
\* the method is bound once, as a one-element choice)
CheckGaze ==
  \E err \in {Raised(calibration_points)} :
  IF err # None
  THEN \* the exception leaves the method before moveTo and the dwell loop
    /\ error' = err
    /\ fresh' = FALSE
    /\ UNCHANGED <<calibration_points, screen_w, screen_h, latest,
                   prev_cursor_pos, buttons, hovered_button, hover_timer,
                   screen_pt, hit_point, hit, activated, ticked, before_pos,
                   before_hovered, same_target, streak_ms, fired_earlier,
                   ui_vars>>
  ELSE
  \E dt \in TickDelays, undef \in BOOLEAN :
    \E projected \in {Project(calibration_points, screen_w, screen_h, latest)} :
    \E smoothed \in {SmoothPos(prev_cursor_pos, projected)} :
    \E point \in {HitTestPoint(projected, smoothed)} :
    \E btn \in {FirstHit(buttons, point)} :
    \E d \in {Dwell(hovered_button, Advance(hover_timer, dt), btn, undef)} :
    \E unbroken \in {btn # None /\ btn = hit} :
    /\ screen_pt' = projected
    /\ prev_cursor_pos' = smoothed
    /\ hit_point' = point
    /\ hovered_button' = d.hovered
    /\ hover_timer' = d.timer
    /\ activated' = d.click
    \* btn.click(): the button's handler may switch the screen
    /\ IF d.click # None
         THEN \E k \in 1..Len(ScreenButtons) : buttons' = ScreenButtons[k]
         ELSE buttons' = buttons
    /\ fresh' = FALSE
    /\ hit' = btn
    /\ ticked' = TRUE
    /\ before_pos' = prev_cursor_pos
    /\ before_hovered' = hovered_button
    /\ same_target' = (ticked /\ projected = screen_pt)
    /\ streak_ms' = IF unbroken THEN Min(streak_ms + dt, ElapsedCap) ELSE 0
    /\ fired_earlier' = (unbroken /\ (fired_earlier \/ activated # None))
    /\ error' = None
    /\ UNCHANGED <<calibration_points, screen_w, screen_h, latest, ui_vars>>

Init ==
  /\ Start({DwellCalib}, DwellScreen, {Center(DwellScreen[1], DwellScreen[2])},
           ScreenButtons[1])
  /\ Window(calibration_points)

Next == SensorUpdate(DwellSamples) \/ SwitchScreen \/ CheckGaze

Spec == Init /\ [][Next]_vars

----------------------------------------------------------------------------
(* Runs from calibration files that lack the Center record                 *)

\* calib without the record of anchor name
Without(calib, name) == [ n \in (DOMAIN calib) \ {name} |-> calib[n] ]

\* a complete file, one without "Center", an empty one
LoadedCalibs == { DwellCalib, Without(DwellCalib, "Center"), <<>> }

InitLoaded ==
  /\ Start(LoadedCalibs, DwellScreen, {Center(DwellScreen[1], DwellScreen[2])},
           ScreenButtons[1])
  /\ Window(calibration_points)

SpecLoaded == InitLoaded /\ [][Next]_vars

----------------------------------------------------------------------------
(* Smoothing runs: any pointer start on the screen, the final screen shown *)

InitSmooth ==
  /\ Start(SmoothCalibs, SmoothScreen,
           (0..(SmoothScreen[1] - 1)) \X {0, SmoothScreen[2] - 1}, <<>>)
  /\ Window(calibration_points)

NextSmooth == SensorUpdate(SmoothSamples) \/ CheckGaze

SpecSmooth == InitSmooth /\ [][NextSmooth]_vars

----------------------------------------------------------------------------
(* Mapping runs: lines 68-96 of check_gaze applied to drawn inputs         *)

InitProject ==
  /\ \E scr \in WideScreens :
       Start(WideCalibs, scr, {Center(scr[1], scr[2])}, <<>>)
  /\ Window(calibration_points)

\* the mapping part of check_gaze on one sample
ProjectSample ==
  /\ \E s \in WideSamples :
       /\ latest' = s
       /\ screen_pt' = Project(calibration_points, screen_w, screen_h, s)
  /\ ticked' = TRUE
  /\ UNCHANGED <<calibration_points, screen_w, screen_h, fresh,
                 prev_cursor_pos, buttons, hovered_button, hover_timer,
                 hit_point, hit, activated, before_pos, before_hovered,
                 same_target, streak_ms, fired_earlier, error, ui_vars>>

NextProject == ProjectSample

SpecProject == InitProject /\ [][NextProject]_vars

----------------------------------------------------------------------------
(* Calibration runs: the window from its construction to its close         *)

InitCalib ==
  /\ Start({NoFile}, DwellScreen, {Center(DwellScreen[1], DwellScreen[2])},
           <<>>)
  /\ Window(NoFile)

NextCalib ==
  \/ \E key \in Keys : KeyPress(key)
  \/ ShowNextMarker
  \/ RunEvaluation
  \/ CloseWindow

SpecCalib == InitCalib /\ [][NextCalib]_vars

----------------------------------------------------------------------------
(* Evaluation runs: run_evaluation on drawn calibration sets               *)

EvalScreens == { <<200, 100>>, <<40, 30>> }
EvalOffs == {0, 10, 20, 30, 50, 60}
EvalWidths == {1, 200}

\* a set whose Top-Left dx, Center dx and Bottom-Right dy are a, b, c, the
\* other records 0.15 off in dx, all of width wd
Graded(a, b, c, wd) ==
  [ n \in AnchorNames |->
      <<5, 0,
        IF n = "Top-Left" THEN a ELSE IF n = "Center" THEN b ELSE 15,
        IF n = "Bottom-Right" THEN c ELSE 0,
        wd>> ]

\* every mean offset 0
ZeroOffsets(wd) == [ n \in AnchorNames |-> <<5, 0, 0, 0, wd>> ]

\* dx = xFrac * W, dy = yFrac * H, width = 1
Constructed(w, h) ==
  [ n \in AnchorNames |->
      <<5, 0, 50 * AnchorCell[n][1] * w, 50 * AnchorCell[n][2] * h, 1>> ]

EvalFiles(scr) ==
  { Graded(a, b, c, wd) : a \in EvalOffs, b \in EvalOffs, c \in EvalOffs,
                          wd \in EvalWidths }
    \cup { ZeroOffsets(wd) : wd \in EvalWidths }
    \cup { Constructed(scr[1], scr[2]) }

\* the state the complete branch of show_next_marker leaves, file saved
Evaluating(file) ==
  /\ current_step = Len(keys_map)
  /\ pending_show = 0
  /\ visible = {}
  /\ tracker_points = file
  /\ calibrate_calls = [ i \in 1..Len(keys_map) |-> keys_map[i][1] ]
  /\ marker_shown = TRUE
  /\ completions = 1
  /\ saved_file = file
  /\ pending_eval = 1 /\ pending_close = 1
  /\ closed = FALSE
  /\ summary = NoFile
  /\ last_key = None

InitEval ==
  \E scr \in EvalScreens :
    /\ Start(EvalFiles(scr), scr, {Center(scr[1], scr[2])}, <<>>)
    /\ Evaluating(calibration_points)

NextEval == RunEvaluation \/ CloseWindow

SpecEval == InitEval /\ [][NextEval]_vars

----------------------------------------------------------------------------
(* Properties                                                              *)

\* some calibration record was sealed with no sample
HasEmptyRecord == \E n \in DOMAIN calibration_points : calibration_points[n][1] = 0

\* C1: an unbroken run of ticks on the same button T emits one Activation(T)
\* and no more: once a tick of the run has clicked T, no later tick of the
\* same run clicks it again.
C1_OneActivationPerDwell ==
  hit # None => ~(activated # None /\ fired_earlier)

\* C2: a tick clicks T only if T was the hit button on every tick of an
\* unbroken run that has lasted at least 2000 ms; a tick that hits no button
\* leaves no button hovered and no dwell time running.
C2_ActivationNeedsFullDwell ==
  /\ activated # None =>
       /\ hit = activated
       /\ before_hovered = activated
       /\ streak_ms >= DWELL_MS
  /\ (ticked /\ hit = None) => (hovered_button = None /\ hover_timer = Invalid)

\* a tick clicked the button that had been hit without a break for more
\* than 2000 ms, the first click of that run
C2_Witness ==
  /\ activated # None
  /\ hit = activated
  /\ streak_ms > DWELL_MS
  /\ ~fired_earlier

\* C3: a tick whose point lies in T while no button or another button is
\* hovered makes T the hovered button, restarts the hover clock and clicks
\* nothing.
C3_HoverRestarts ==
  (ticked /\ hit # None /\ before_hovered # hit) =>
    /\ hovered_button = hit
    /\ hover_timer = Restarted
    /\ activated = None

\* the hover moved from one button straight to another
C3_Witness == ticked /\ hit # None /\ before_hovered \notin {None, hit}

\* C4: the point a tick hit-tests against the buttons is the smoothed
\* position that tick moved the pointer to.
C4_HitTestsSmoothedPosition == ticked => hit_point = prev_cursor_pos

\* C5: on a tick that projects the same target as the tick before, on each
\* axis the smoothed position gets no farther from the target, stays on its
\* side of the target, and stays at the target if it was there.
C5_MonotoneNoOvershoot ==
  (ticked /\ same_target) =>
    \A i \in 1..2 :
      /\ Abs(prev_cursor_pos[i] - screen_pt[i]) <= Abs(before_pos[i] - screen_pt[i])
      /\ before_pos[i] <= screen_pt[i] =>
           (before_pos[i] <= prev_cursor_pos[i] /\ prev_cursor_pos[i] <= screen_pt[i])
      /\ before_pos[i] >= screen_pt[i] =>
           (screen_pt[i] <= prev_cursor_pos[i] /\ prev_cursor_pos[i] <= before_pos[i])

\* a repeated target moved the pointer closer without reaching it
C5_Witness ==
  /\ ticked /\ same_target
  /\ prev_cursor_pos[1] # before_pos[1]
  /\ prev_cursor_pos[1] # screen_pt[1]
  /\ before_pos[2] = screen_pt[2] /\ prev_cursor_pos[2] = screen_pt[2]

\* C6: under a constant target the smoothed position ends at the target.
\* Smoothing is a function of (position, target), so a tick that repeats the
\* target and leaves the position where it was leaves it there for good:
\* the position may only settle at the target.
C6_SettlesOnlyAtTarget ==
  (ticked /\ same_target /\ prev_cursor_pos = before_pos) =>
    prev_cursor_pos = screen_pt

\* C7: after the first tick, a step taken while the sensor has stored no new
\* sample since the last tick leaves the pointer position unchanged.
C7_NoSampleNoMove ==
  [][(ticked /\ ~fresh) => prev_cursor_pos' = prev_cursor_pos]_vars

\* C8: the projected point lies on the screen.
C8_ProjectionOnScreen ==
  ticked =>
    /\ 0 <= screen_pt[1] /\ screen_pt[1] <= screen_w - 1
    /\ 0 <= screen_pt[2] /\ screen_pt[2] <= screen_h - 1

\* the unclamped point was off the screen on both axes
C8_Witness ==
  /\ ticked
  /\ screen_pt = Project(calibration_points, screen_w, screen_h, latest)
  /\ RawProject(calibration_points, screen_w, screen_h, latest)[1] < 0
  /\ RawProject(calibration_points, screen_w, screen_h, latest)[2] > screen_h - 1

\* C9: with every record holding a sample, the Center record's own mean
\* offsets project to (CENTER_X, CENTER_Y).
C9_CenterMapsToCenter ==
  ( /\ ticked
    /\ ~HasEmptyRecord
    /\ latest = <<calibration_points["Center"][3], calibration_points["Center"][4]>> )
  => screen_pt = <<screen_w \div 2, screen_h \div 2>>

\* the Center mean is not the zero offset, is not the middle of the range,
\* and the screen is large
C9_Witness ==
  /\ ticked
  /\ ~HasEmptyRecord
  /\ latest = <<calibration_points["Center"][3], calibration_points["Center"][4]>>
  /\ latest[1] # 0
  /\ calibration_points["Top-Left"][3] - latest[1]
       # latest[1] - calibration_points["Top-Right"][3]
  /\ screen_w > 1000

\* C10: with a calibration set holding an empty record no tick projects a
\* point, moves the pointer or clicks.
C10_EmptyRecordBlocksTicks ==
  HasEmptyRecord =>
    (~ticked /\ prev_cursor_pos = before_pos /\ activated = None)

\* C11: with no "Center" record in the loaded calibration set no tick moves
\* the pointer, changes prev_cursor_pos or the dwell state, or clicks.
C11_NoCenterNoOperation ==
  "Center" \notin DOMAIN calibration_points =>
    /\ ~ticked
    /\ prev_cursor_pos = before_pos
    /\ hovered_button = None /\ hover_timer = Invalid
    /\ hit = None /\ activated = None

\* a tick ran on a set without "Center" while the gaze pointed into a button
C11_Witness ==
  /\ error = "KeyError"
  /\ ~fresh
  /\ latest # <<0, 0>>

\* the calibration state is the first current_step anchors of the table,
\* and nothing is saved before all of them are calibrated
InOrder ==
  /\ calibrate_calls = [ i \in 1..current_step |-> keys_map[i][1] ]
  /\ DOMAIN tracker_points = { keys_map[i][1] : i \in 1..current_step }
  /\ (completions > 0 \/ saved_file # NoFile) =>
       /\ current_step = Len(keys_map)
       /\ saved_file = tracker_points
       /\ DOMAIN saved_file = AnchorNames

\* a step moves current_step by at most one, and only on the trigger key
\* of the current anchor; any other key changes neither it nor the records
OneAtATime ==
  /\ current_step' \in {current_step, current_step + 1}
  /\ current_step' # current_step =>
       (current_step < Len(keys_map)
          /\ last_key' = keys_map[current_step + 1][2])
  /\ tracker_points' # tracker_points => current_step' = current_step + 1
  /\ (last_key' # None
        /\ (current_step >= Len(keys_map)
              \/ last_key' # keys_map[current_step + 1][2])) =>
       (current_step' = current_step /\ tracker_points' = tracker_points)

\* C12: the anchors are calibrated one at a time in the order of the
\* positions table, each once; current_step rises by one only on the
\* current anchor's trigger key, other keys change nothing, and the set is
\* saved only after all nine.
C12_SequentialCalibration == []InOrder /\ [][OneAtATime]_vars

\* all nine anchors calibrated and the set saved
C12_Witness ==
  /\ completions > 0
  /\ Len(calibrate_calls) = Len(keys_map)
  /\ saved_file = tracker_points
  /\ DOMAIN saved_file = AnchorNames

\* C13: the accuracy percentages never decrease along the thresholds
\* 20, 40, 60, 80, 100, and are 100% at every threshold greater than all
\* distance errors.
C13_AccuracyMonotone ==
  summary # NoFile =>
    /\ \A i \in 1..(Len(THRESHOLDS) - 1) :
         summary.accuracy_percentages[i] <= summary.accuracy_percentages[i + 1]
    /\ \A i \in 1..Len(THRESHOLDS) :
         (\A n \in AnchorNames :
            ErrorSq(saved_file, screen_w, screen_h)[n]
              < (100 * THRESHOLDS[i]) * (100 * THRESHOLDS[i]))
           => summary.accuracy_percentages[i] = 10000

\* an evaluation whose accuracy rose from above 0% at 20 px to 100% at
\* 100 px
C13_Witness ==
  /\ summary # NoFile
  /\ 0 < summary.accuracy_percentages[1]
  /\ summary.accuracy_percentages[1] < summary.accuracy_percentages[3]
  /\ summary.accuracy_percentages[3] < summary.accuracy_percentages[5]
  /\ summary.accuracy_percentages[5] = 10000

\* the evaluation found no error at all
Perfect ==
  /\ summary.mean_euclidean_distance_px = 0
  /\ \A i \in 1..Len(THRESHOLDS) : summary.accuracy_percentages[i] = 10000

\* C14 as stated: the set built as dx = xFrac*W, dy = yFrac*H, width = 1
\* evaluates to mean distance error 0 and 100% at every threshold.
C14_ConstructedSetPerfect ==
  (summary # NoFile /\ saved_file = Constructed(screen_w, screen_h))
    => Perfect

\* C14 amended: a set whose mean offsets are all 0 evaluates to mean
\* distance error 0 and 100% at every threshold; the set built as
\* dx = xFrac*W, dy = yFrac*H, width = 1 evaluates to a mean error that is
\* the mean distance of the anchors from the top-left corner.
C14_ZeroOffsetsPerfect ==
  /\ (summary # NoFile
        /\ \A n \in DOMAIN saved_file :
             saved_file[n][3] = 0 /\ saved_file[n][4] = 0)
       => Perfect
  /\ (summary # NoFile /\ saved_file = Constructed(screen_w, screen_h))
       => summary.mean_euclidean_distance_px
            = MeanDistance([ n \in AnchorNames |->
                DistSq(GroundTruth(n, screen_w, screen_h), <<0, 0>>) ])

\* a set with all offsets 0 and width 200 was evaluated
C14_Witness ==
  /\ summary # NoFile
  /\ saved_file = ZeroOffsets(200)

\* C15: the tick that clicks T leaves no button hovered and the hover clock
\* stopped.
C15_ActivationLeavesIdle ==
  activated # None => (hovered_button = None /\ hover_timer = Invalid)

\* the latest tick found T hovered with the hover clock running since the
\* first tick of the unbroken run on T
StillHovering ==
  ticked /\ hit # None /\ before_hovered = hit /\ ~fired_earlier

\* C16 as stated: such a tick clicks T once 2000 ms or more have passed,
\* and before that leaves the hover as it was.
C16_FiresAtThreshold ==
  StillHovering =>
    /\ streak_ms >= DWELL_MS => activated = hit
    /\ streak_ms < DWELL_MS =>
         /\ activated = None
         /\ hovered_button = hit
         /\ hover_timer = [valid |-> TRUE, elapsed |-> streak_ms]

\* C16 amended: such a tick clicks T once more than 2000 ms have passed;
\* up to and including 2000 ms it leaves the hover as it was and clicks
\* nothing.
C16_FiresPastThreshold ==
  StillHovering =>
    /\ streak_ms > DWELL_MS => (activated = hit /\ hover_timer = Invalid)
    /\ streak_ms <= DWELL_MS =>
         /\ activated = None
         /\ hovered_button = hit
         /\ hover_timer = [valid |-> TRUE, elapsed |-> streak_ms]

\* a tick exactly 2000 ms after the hover began clicked nothing
C16_Witness ==
  /\ StillHovering
  /\ streak_ms = DWELL_MS
  /\ activated = None

\* C17: a tick considers only the first button of self.buttons containing
\* the point: that button becomes or stays hovered and only it can be
\* clicked; with no containing button (or no button) nothing is hovered.
C17_FirstContainingWins ==
  [][ (CheckGaze /\ error' = None) =>
        LET cont == { i \in 1..Len(buttons) :
                        Contains(ButtonRect[buttons[i]], hit_point') }
        IN IF cont = {}
             THEN /\ hit' = None /\ hovered_button' = None
                  /\ hover_timer' = Invalid /\ activated' = None
             ELSE /\ hit' = buttons[SetMin(cont)]
                  /\ hovered_button' = buttons[SetMin(cont)]
                  /\ activated' \in {None, buttons[SetMin(cont)]} ]_vars

\* the point lay in both A and B and A, listed first, was clicked
C17_Witness ==
  /\ ticked
  /\ Contains(ButtonRect["A"], hit_point)
  /\ Contains(ButtonRect["B"], hit_point)
  /\ hit = "A" /\ hovered_button = "A" /\ activated = "A"

\* C18: the complete branch of show_next_marker runs at most once in a
\* session.
C18_CompletesOnce == completions <= 1

\* C19: calibrate_point is called for an anchor only while that anchor's
\* marker is visible.
C19_CalibratesVisibleAnchor == marker_shown

\* C20: from a pointer start on the screen the smoothed position stays on
\* the screen and, on each axis, between the position before the tick and
\* the clamped projected target.
C20_SmoothedStaysOnScreen ==
  /\ 0 <= prev_cursor_pos[1] /\ prev_cursor_pos[1] <= screen_w - 1
  /\ 0 <= prev_cursor_pos[2] /\ prev_cursor_pos[2] <= screen_h - 1
  /\ ticked =>
       \A i \in 1..2 :
         /\ Min(before_pos[i], screen_pt[i]) <= prev_cursor_pos[i]
         /\ prev_cursor_pos[i] <= Max(before_pos[i], screen_pt[i])

\* a tick whose unclamped target was off the screen moved the pointer
\* strictly between its old position and the clamped target
C20_Witness ==
  /\ ticked
  /\ RawProject(calibration_points, screen_w, screen_h, latest)[1] > screen_w - 1
  /\ screen_pt[1] = screen_w - 1
  /\ before_pos[1] < prev_cursor_pos[1]
  /\ prev_cursor_pos[1] < screen_pt[1]

====
